---- MODULE Spec2Model ----
(***************************************************************************)
(* A model of the LawGPT KSA retrieval and ingestion pipeline:             *)
(*   src/lawgpt_utils.py   get_relevant_documents, ask_chatbot             *)
(*   src/pdf_processor.py  PDFProcessor.split_text_into_chunks             *)
(*                                                                         *)
(* Strings are sequences of atoms.  An atom is a stretch of characters     *)
(* that the program only ever tests as a whole (a keyword, a law type, a   *)
(* single character of a text to be chunked); lower() maps atoms, and the  *)
(* substring test `needle in s` is the occurrence of the needle's atom.    *)
(***************************************************************************)
EXTENDS Integers, Sequences, FiniteSets, TLC

VARIABLES
    qdrant_client,   \* "ok" | "none": lawgpt_utils.qdrant_client after import
    embedder,        \* "ok" | "none": lawgpt_utils.embedder after import
    openai_client,   \* "ok" | "none": lawgpt_utils.openai_client after import
    ksa_legal_docs,  \* the articles collection, as the store ranks it for the query
    ksa_cases,       \* the cases collection, as the store ranks it for the query
    call,            \* the last call of the query path: its inputs and what it did
    text,            \* split_text_into_chunks: the text, a sequence of characters
    chunk_size,      \* split_text_into_chunks: parameter
    overlap,         \* split_text_into_chunks: parameter
    start,           \* split_text_into_chunks: local `start`
    chunks,          \* split_text_into_chunks: the windows whose chunk was appended
    windows,         \* every window [start, end) the loop has taken, in order
    cpc,             \* split_text_into_chunks: "enter" | "loop" | "done" | "raised"
    documents,       \* upload_documents: the documents to upload
    doc_i,           \* upload_documents: how many documents the loop has taken
    points,          \* upload_documents: local `points`, the ids waiting for an upsert
    upserts,         \* the upsert calls made so far: [points, ok]
    faults,          \* which calls raise: [embed: document numbers, upsert: call numbers]
    upc,             \* upload_documents: "idle" | "enter" | "loop" | "final" | "true" | "false"
    arg,             \* the argument of the function a specification applies
    result,          \* what that function returned
    fpc              \* "idle" | "call" | "returned"

vars == <<qdrant_client, embedder, openai_client, ksa_legal_docs, ksa_cases, call,
          text, chunk_size, overlap, start, chunks, windows, cpc,
          documents, doc_i, points, upserts, faults, upc, arg, result, fpc>>

retrievalVars == <<qdrant_client, embedder, openai_client, ksa_legal_docs, ksa_cases, call>>

chunkVars == <<text, chunk_size, overlap, start, chunks, windows, cpc>>

uploadVars == <<documents, doc_i, points, upserts, faults, upc>>

callVars == <<arg, result, fpc>>

ingestVars == <<uploadVars, callVars>>

UploadIdle ==
    /\ documents = <<>>
    /\ doc_i = 0
    /\ points = <<>>
    /\ upserts = <<>>
    /\ faults = [embed |-> {}, upsert |-> {}]
    /\ upc = "idle"

CallIdle ==
    /\ arg = <<>>
    /\ result = <<>>
    /\ fpc = "idle"

Min(a, b) == IF a <= b THEN a ELSE b

Max(a, b) == IF a >= b THEN a ELSE b

(***************************************************************************)
(* Bounds of the model.                                                    *)
(***************************************************************************)
MaxTopK == 2

MaxHits == 2

MaxCaseHits == 2

(***************************************************************************)
(* Strings.                                                                *)
(***************************************************************************)
\* str.lower() on one atom.
LowerAtom(a) ==
    CASE a = "Sharia_Law"  -> "sharia_law"
      [] a = "Islamic_Law" -> "islamic_law"
      [] a = "Contract"    -> "contract"
      [] a = "CONTRACT"    -> "contract"
      [] a = "Sharia"      -> "sharia"
      [] a = "HYBRID"      -> "hybrid"
      [] a = "Civil"       -> "civil"
      [] a = "Criminal"    -> "criminal"
      [] a = "Labor"       -> "labor"
      [] a = "Company"     -> "company"
      [] a = "Traffic"     -> "traffic"
      [] a = "Board"       -> "board"
      [] a = "Grievance"   -> "grievance"
      [] a = "Basic"       -> "basic"
      [] a = "Governance"  -> "governance"
      [] a = "KSA_"        -> "ksa_"
      [] OTHER             -> a

\* str.lower()
Lower(s) == [i \in 1..Len(s) |-> LowerAtom(s[i])]

\* `needle in s` for a needle of one atom
Contains(needle, s) == \E i \in 1..Len(s) : s[i] = needle

\* dict.get(key, default) on a payload
PayloadGet(payload, key, default) ==
    IF key \in DOMAIN payload THEN payload[key] ELSE default

\* seq[:n]
Take(seq, n) == SubSeq(seq, 1, Min(Max(n, 0), Len(seq)))

(***************************************************************************)
(* lawgpt_utils.LAW_TYPE_MAPPING                                           *)
(***************************************************************************)
FilterKeys == {"sharia", "labour", "regulatory", "hybrid"}

LAW_TYPE_MAPPING ==
    [k \in FilterKeys |->
        CASE k = "sharia"     -> {"sharia_law", "islamic_law"}
          [] k = "labour"     -> {"labor_law", "employment_law"}
          [] k = "regulatory" -> {"administrative_law", "regulatory_law", "compliance"}
          [] k = "hybrid"     -> {"all"}]

\* LAW_TYPE_MAPPING.get(law_filter.lower(), ["all"])
AllowedLawTypes(law_filter) ==
    IF LowerAtom(law_filter) \in FilterKeys
    THEN LAW_TYPE_MAPPING[LowerAtom(law_filter)]
    ELSE {"all"}

\* The test of lines 107-110: whether hit r survives the manual filter.
PassesFilter(r, law_filter) ==
    LET law_type == Lower(PayloadGet(r.payload, "law_type", <<>>))
        allowed  == AllowedLawTypes(law_filter)
    IN  \/ LowerAtom(law_filter) = "hybrid"
        \/ "all" \in allowed
        \/ \E allowed_type \in allowed : Contains(allowed_type, law_type)

(***************************************************************************)
(* The vector store.  A hit is [id, score, payload]; a collection is kept  *)
(* as the ranking the store computes for the query vector (similarity       *)
(* non-increasing), and search(limit) is its first `limit` hits.           *)
(***************************************************************************)
Scores == {1, 2}

ArticleLawTypes == {<<"Sharia_Law">>, <<"civil_law">>}

ArticlePayloads ==
    [law_type : ArticleLawTypes, source : {"pdf"}] \cup [source : {"pdf"}]

CasePayloads == [law_type : {<<"case_law">>}, source : {"case"}]

\* The rankings of at most n hits over the given payloads: hit i is point i.
Rankings(payloads, n) ==
    UNION {
        { r \in [1..len -> [id : 1..n, score : Scores, payload : payloads]] :
            /\ \A i \in 1..len : r[i].id = i
            /\ \A i \in 1..(len - 1) : r[i].score >= r[i + 1].score }
        : len \in 0..n }

\* qdrant_client.search(collection_name, query_vector, limit): raises, or ranks
Search(collection, limit, fails) ==
    IF fails
    THEN [exc |-> TRUE, hits |-> <<>>]
    ELSE [exc |-> FALSE, hits |-> Take(collection, limit)]

(***************************************************************************)
(* get_relevant_documents.  A result carries, besides the fields the code  *)
(* copies from the payload, the collection and point it was built from.    *)
(***************************************************************************)
\* The dict built at lines 114-121 and 125-132.
ArticleResult(r) ==
    [coll     |-> "ksa_legal_docs",
     pt       |-> r.id,
     source   |-> PayloadGet(r.payload, "source", "unknown"),
     law_type |-> PayloadGet(r.payload, "law_type", <<"general">>),
     score    |-> r.score]

\* The dict built at lines 145-152.
CaseResult(r) ==
    [coll     |-> "ksa_cases",
     pt       |-> r.id,
     source   |-> "case",
     law_type |-> PayloadGet(r.payload, "law_type", <<"case_law">>),
     score    |-> r.score]

\* The loops of lines 113-132 and 144-152: one result per hit, in order.
ArticleResults(hits) == [i \in 1..Len(hits) |-> ArticleResult(hits[i])]

CaseResults(hits) == [i \in 1..Len(hits) |-> CaseResult(hits[i])]

\* Lines 104-110: filtered_results.
FilteredResults(pdf_results, law_filter) ==
    SelectSeq(pdf_results, LAMBDA r : PassesFilter(r, law_filter))

\* Lines 112-132: what the articles block appends to all_results: the first
\* top_k filtered hits, and then every hit of pdf_results once more.
ArticlesAppended(pdf_results, top_k, law_filter) ==
    ArticleResults(Take(FilteredResults(pdf_results, law_filter), top_k))
        \o ArticleResults(pdf_results)

\* ArticlesTry without the except clause of line 134: the exception leaves the block.
ArticlesTryNoExcept(st, top_k, law_filter, fails) ==
    LET pdf == Search(ksa_legal_docs, top_k * 3, fails)
        searched == Append(st.searches, [coll |-> "ksa_legal_docs", limit |-> top_k * 3])
    IN  IF pdf.exc
        THEN [exc |-> TRUE, all_results |-> st.all_results, searches |-> searched]
        ELSE [exc |-> FALSE,
              all_results |-> st.all_results \o ArticlesAppended(pdf.hits, top_k, law_filter),
              searches |-> searched]

\* Lines 95-135: the articles try block.  st is [exc, all_results, searches].
ArticlesTry(st, top_k, law_filter, fails) ==
    LET pdf == Search(ksa_legal_docs, top_k * 3, fails)
        searched == Append(st.searches, [coll |-> "ksa_legal_docs", limit |-> top_k * 3])
    IN  IF pdf.exc
        THEN [exc |-> FALSE, all_results |-> st.all_results, searches |-> searched]
        ELSE [exc |-> FALSE,
              all_results |-> st.all_results \o ArticlesAppended(pdf.hits, top_k, law_filter),
              searches |-> searched]

\* CasesAppended with the manual law-type filter of the articles block applied.
CasesAppendedFiltered(case_results, law_filter) ==
    CaseResults(FilteredResults(case_results, law_filter))

\* Lines 144-152: what the cases block appends to all_results.
CasesAppended(case_results, law_filter) == CaseResults(case_results)

\* The limit of the cases search, line 142.
CasesLimit(top_k, law_filter) == top_k

\* Lines 138-154: the cases try block.
CasesTry(st, top_k, law_filter, fails) ==
    LET res == Search(ksa_cases, CasesLimit(top_k, law_filter), fails)
        searched == Append(st.searches,
                           [coll |-> "ksa_cases", limit |-> CasesLimit(top_k, law_filter)])
    IN  IF res.exc
        THEN [exc |-> FALSE, all_results |-> st.all_results, searches |-> searched]
        ELSE [exc |-> FALSE,
              all_results |-> st.all_results \o CasesAppended(res.hits, law_filter),
              searches |-> searched]

\* list.sort(key=score, reverse=True): stable, equal scores keep their order.
InsertByScore(h, s) ==
    LET k == Cardinality({i \in 1..Len(s) : s[i].score > h.score})
    IN  SubSeq(s, 1, k) \o <<h>> \o SubSeq(s, k + 1, Len(s))

RECURSIVE SortByScore(_)
SortByScore(s) ==
    IF Len(s) <= 1 THEN s ELSE InsertByScore(Head(s), SortByScore(Tail(s)))

\* TopResults without the sort of line 157.
TopResultsNoSort(all_results, top_k) == Take(all_results, top_k)

\* Lines 156-158: all_results.sort(...); return all_results[:top_k]
TopResults(all_results, top_k) == Take(SortByScore(all_results), top_k)

FailModes == {"none", "embed", "articles", "cases", "both"}

\* Lines 76-162.  The outcome: raised (an exception reached the caller),
\* ret (the list returned), all_results (the merged list before the sort),
\* searches (the store searches performed, in order).
GetRelevantDocumentsOutcome(query, top_k, law_filter, fail) ==
    LET none == [raised |-> FALSE, ret |-> <<>>, all_results |-> <<>>, searches |-> <<>>]
    IN  IF qdrant_client = "none" THEN none
        ELSE IF embedder = "none" THEN none
        ELSE IF fail = "embed" THEN none   \* line 89 raises, caught at line 160
        ELSE
            LET st0 == [exc |-> FALSE, all_results |-> <<>>, searches |-> <<>>]
                st1 == ArticlesTry(st0, top_k, law_filter, fail \in {"articles", "both"})
                st2 == IF st1.exc THEN st1
                       ELSE CasesTry(st1, top_k, law_filter, fail \in {"cases", "both"})
            IN  IF st2.exc
                THEN [none EXCEPT !.searches = st2.searches]  \* caught at line 160
                ELSE [raised |-> FALSE,
                      ret |-> TopResults(st2.all_results, top_k),
                      all_results |-> st2.all_results,
                      searches |-> st2.searches]

Filters == {"sharia", "Sharia", "labour", "hybrid", "family"}

Queries == {<<"what", "is", "a", "Contract">>, <<"CONTRACT">>, <<"divorce", "rules">>}

\* A caller (get_relevant_cases, or the application) calls get_relevant_documents.
\* One request is followed from a fresh process: requests leave no state behind.
GetRelevantDocuments ==
    /\ call.op = "none"
    /\ \E query \in Queries, top_k \in 0..MaxTopK, law_filter \in Filters, fail \in FailModes :
        call' = [op |-> "get_relevant_documents", query |-> query, top_k |-> top_k,
                 law_filter |-> law_filter, fail |-> fail,
                 out |-> GetRelevantDocumentsOutcome(query, top_k, law_filter, fail)]
    /\ UNCHANGED <<qdrant_client, embedder, openai_client, ksa_legal_docs, ksa_cases>>
    /\ UNCHANGED chunkVars
    /\ UNCHANGED ingestVars

(***************************************************************************)
(* ask_chatbot.  The answer is a string: a sequence of atoms.              *)
(***************************************************************************)
\* top_k of the call at line 171
AskTopK == 5

\* What str(e) can be for an exception of the generation call.
ErrorMessages == {<<"Connection error.">>}

\* openai_client.chat.completions.create(...): content returned, or an exception
GenerationOutcomes ==
    {[kind |-> "ok", content |-> <<"generated answer">>]}
        \cup {[kind |-> "raise", msg |-> m] : m \in ErrorMessages}

\* Line 213
UnavailableMessage ==
    <<"Sorry, the AI service is currently unavailable. Please check your Azure OpenAI configuration.">>

\* Lines 226-234
ContractFallback ==
    <<"Based on KSA contract law, contracts must meet several requirements to be valid:",
      "Offer and Acceptance", "Capacity", "Consideration", "Legal Purpose", "Form",
      "For specific legal advice, please consult with a qualified Saudi Arabian lawyer.">>

\* Lines 236-243
GenericFallback(query, e) ==
    <<"I'm currently unable to access the AI service to provide a detailed answer about">>
        \o query
        \o <<"For accurate legal information about KSA law, I recommend:",
             "Consulting with a qualified Saudi Arabian lawyer",
             "Checking official government legal resources",
             "Contacting the Ministry of Justice",
             "Error details:">>
        \o e

\* IsContractQuery without lower().
IsContractQueryCaseSensitive(query) == Contains("contract", query)

\* Line 225: "contract" in query.lower()
IsContractQuery(query) == Contains("contract", Lower(query))

\* Lines 222-243: the except branch of the generation call
FallbackAnswer(query, e) ==
    IF IsContractQuery(query) THEN ContractFallback ELSE GenericFallback(query, e)

\* Lines 173-210: which prompt is built, and from which documents
BuildPrompt(relevant_docs) ==
    IF relevant_docs /= <<>>
    THEN [kind  |-> "context",
          cases |-> Len(SelectSeq(relevant_docs, LAMBDA d : d.source = "case")),
          pdfs  |-> Len(SelectSeq(relevant_docs, LAMBDA d : d.source = "pdf"))]
    ELSE [kind |-> "general", cases |-> 0, pdfs |-> 0]

\* Lines 212-243: the answer returned
AskChatbotAnswer(query, gen) ==
    IF openai_client = "none" THEN UnavailableMessage
    ELSE IF gen.kind = "ok" THEN gen.content
    ELSE FallbackAnswer(query, gen.msg)

\* Lines 169-243
AskChatbot ==
    /\ call.op = "none"
    /\ \E query \in Queries, law_filter \in Filters, fail \in FailModes,
          gen \in GenerationOutcomes :
        LET docs == GetRelevantDocumentsOutcome(query, AskTopK, law_filter, fail)
        IN  call' = [op |-> "ask_chatbot", query |-> query, law_filter |-> law_filter,
                     fail |-> fail, gen |-> gen,
                     raised |-> docs.raised,
                     prompt |-> BuildPrompt(docs.ret),
                     answer |-> AskChatbotAnswer(query, gen)]
    /\ UNCHANGED <<qdrant_client, embedder, openai_client, ksa_legal_docs, ksa_cases>>
    /\ UNCHANGED chunkVars
    /\ UNCHANGED ingestVars

(***************************************************************************)
(* PDFProcessor.split_text_into_chunks.  The text is a sequence of          *)
(* characters, 1-based here and 0-based in the code: text[i] of the code    *)
(* is text[i + 1] of the model.                                            *)
(***************************************************************************)
MaxTextLen == 4

MaxChunkSize == 3

MaxOverlap == 3

MaxWindows == 5

\* chunk_size and overlap defaults, line 50
DefaultChunkSize == 1000

DefaultOverlap == 200

\* The 200 of line 64: how far back from the window end a terminator is sought
SentenceSearchSpan == 200

Chars == {"a", ".", " "}

\* text[i] in '.!?'
IsTerminator(c) == c \in {".", "!", "?"}

\* str.strip() leaves nothing of a string of these
IsWhitespace(c) == c = " "

\* Python's text[i]: a negative index counts from the end; out of range raises.
PyIndexOk(t, i) == i >= -Len(t) /\ i < Len(t)

PyChar(t, i) == IF i >= 0 THEN t[i + 1] ELSE t[Len(t) + i + 1]

\* Python's slice bounds of text[lo:hi]: the 0-based positions [from, to) taken.
PyBound(t, k) == IF k < 0 THEN Max(Len(t) + k, 0) ELSE Min(k, Len(t))

PySlice(t, lo, hi) == SubSeq(t, PyBound(t, lo) + 1, PyBound(t, hi))

\* whether text[lo:hi].strip() is a non-empty string (line 70)
StripNonEmpty(t, lo, hi) ==
    \E k \in 1..Len(PySlice(t, lo, hi)) : ~IsWhitespace(PySlice(t, lo, hi)[k])

\* Line 64: the lower end (exclusive) of range(end, max(...), -1)
SearchFloor(s, size) == Max(s + size - SentenceSearchSpan, s)

\* Lines 59-67: the end of the window that starts at s.  The backward scan
\* stops at the first terminator; reading text[i] below -len(text) raises.
WindowEnd(t, s, size) ==
    LET end  == s + size
        hits == {i \in (SearchFloor(s, size) + 1)..end :
                    PyIndexOk(t, i) /\ IsTerminator(PyChar(t, i))}
        top  == CHOOSE i \in hits : \A j \in hits : j <= i
    IN  IF end < Len(t)
        THEN IF hits /= {} THEN [exc |-> FALSE, end |-> top + 1]
             ELSE IF SearchFloor(s, size) + 1 <= end /\ SearchFloor(s, size) + 1 < -Len(t)
                  THEN [exc |-> TRUE, end |-> end]
                  ELSE [exc |-> FALSE, end |-> end]
        ELSE [exc |-> FALSE, end |-> end]

\* NextStart that forgets the overlap.
NextStartNoOverlap(end, ov) == end

\* Line 73: start = end - overlap
NextStart(end, ov) == end - ov

\* Lines 52-56: the call, its early return for a text of at most chunk_size.
SplitEnter ==
    /\ cpc = "enter"
    /\ IF Len(text) <= chunk_size
       THEN /\ chunks' = <<[start |-> 0, end |-> Len(text)]>>
            /\ cpc' = "done"
       ELSE /\ chunks' = <<>>
            /\ cpc' = "loop"
    /\ start' = 0
    /\ UNCHANGED <<text, chunk_size, overlap, windows>>
    /\ UNCHANGED retrievalVars
    /\ UNCHANGED ingestVars

\* Lines 58-75: one iteration of the while loop.  The loop runs for as long
\* as the code's does; `windows` and `chunks` keep what the first MaxWindows
\* iterations gave.
SplitIter ==
    /\ cpc = "loop"
    /\ start < Len(text)
    /\ LET w == WindowEnd(text, start, chunk_size)
       IN  IF w.exc
           THEN /\ cpc' = "raised"
                /\ UNCHANGED <<start, chunks, windows>>
           ELSE /\ windows' = IF Len(windows) < MaxWindows
                              THEN Append(windows, [start |-> start, end |-> w.end])
                              ELSE windows
                /\ chunks' = IF Len(windows) < MaxWindows /\ StripNonEmpty(text, start, w.end)
                             THEN Append(chunks, [start |-> start, end |-> w.end])
                             ELSE chunks
                /\ start' = NextStart(w.end, overlap)
                /\ cpc' = IF NextStart(w.end, overlap) >= Len(text) THEN "done" ELSE "loop"
    /\ UNCHANGED <<text, chunk_size, overlap>>
    /\ UNCHANGED retrievalVars
    /\ UNCHANGED ingestVars

Texts(n) == UNION {[1..len -> Chars] : len \in 0..n}

RetrievalIdle ==
    /\ qdrant_client = "none"
    /\ embedder = "none"
    /\ openai_client = "none"
    /\ ksa_legal_docs = <<>>
    /\ ksa_cases = <<>>
    /\ call = [op |-> "none"]

\* Any text and any configuration.
InitChunk ==
    /\ RetrievalIdle
    /\ UploadIdle
    /\ CallIdle
    /\ text \in Texts(MaxTextLen)
    /\ chunk_size \in 1..MaxChunkSize
    /\ overlap \in 0..MaxOverlap
    /\ start = 0
    /\ chunks = <<>>
    /\ windows = <<>>
    /\ cpc = "enter"

NextChunk ==
    \/ SplitEnter
    \/ SplitIter

SpecChunk == InitChunk /\ [][NextChunk]_vars

(***************************************************************************)
(* The end-to-end scenario: a 2500-character text chunked with the         *)
(* defaults.  The texts differ in where their sentence terminators stand   *)
(* (any subset of the candidate positions, 0-based) and in whether the     *)
(* text ends in a run of whitespace.                                       *)
(***************************************************************************)
E2ELen == 2500

E2ETerminators == {801, 900, 1000, 1403, 1600, 1801, 2204, 2300, 2499}

E2EBlankFrom == {2300, E2ELen}

E2EText(terminators, blankFrom) ==
    [i \in 1..E2ELen |->
        IF (i - 1) \in terminators THEN "."
        ELSE IF (i - 1) >= blankFrom THEN " "
        ELSE "a"]

InitChunkE2E ==
    /\ RetrievalIdle
    /\ UploadIdle
    /\ CallIdle
    /\ text \in {E2EText(T, b) : T \in SUBSET E2ETerminators, b \in E2EBlankFrom}
    /\ chunk_size = DefaultChunkSize
    /\ overlap = DefaultOverlap
    /\ start = 0
    /\ chunks = <<>>
    /\ windows = <<>>
    /\ cpc = "enter"

SpecChunkE2E == InitChunkE2E /\ [][NextChunk]_vars

ChunkIdle ==
    /\ text = <<>>
    /\ chunk_size = 0
    /\ overlap = 0
    /\ start = 0
    /\ chunks = <<>>
    /\ windows = <<>>
    /\ cpc = "idle"

Init ==
    /\ qdrant_client \in {"ok", "none"}
    /\ embedder \in {"ok", "none"}
    /\ openai_client \in {"ok", "none"}
    /\ ksa_legal_docs \in Rankings(ArticlePayloads, MaxHits)
    /\ ksa_cases \in Rankings(CasePayloads, MaxCaseHits)
    /\ call = [op |-> "none"]
    /\ ChunkIdle
    /\ UploadIdle
    /\ CallIdle

Next ==
    \/ GetRelevantDocuments
    \/ AskChatbot

Spec == Init /\ [][Next]_vars

(***************************************************************************)
(* Properties of get_relevant_documents and ask_chatbot.                   *)
(***************************************************************************)
IsRetrieval == call.op = "get_relevant_documents"

IsAsk == call.op = "ask_chatbot"

RestrictiveFilters == {"sharia", "labour", "regulatory"}

EntriesOf(coll, results) == SelectSeq(results, LAMBDA d : d.coll = coll)

Count(x, s) == Cardinality({i \in 1..Len(s) : s[i] = x})

ClientsOk == qdrant_client = "ok" /\ embedder = "ok"

\* C1: with a restrictive filter (sharia, labour, regulatory), every returned
\* result that came from the articles collection has a law_type that matches
\* one of the filter's allowed law types.
C1_ArticlesMatchFilter ==
    (IsRetrieval /\ LowerAtom(call.law_filter) \in RestrictiveFilters) =>
        \A i \in 1..Len(call.out.ret) :
            call.out.ret[i].coll = "ksa_legal_docs" =>
                \E allowed_type \in LAW_TYPE_MAPPING[LowerAtom(call.law_filter)] :
                    Contains(allowed_type, Lower(call.out.ret[i].law_type))

\* C2: get_relevant_documents returns at most top_k results, ordered by score
\* non-increasing, and they are the top_k highest-scored entries of the merged
\* list: a sub-bag of it of size min(top_k, its length), no entry left out
\* scoring higher than an entry returned.
C2_TopKOfMerged ==
    IsRetrieval =>
        LET ret == call.out.ret
            merged == call.out.all_results
        IN  /\ Len(ret) <= call.top_k
            /\ Len(ret) = Min(call.top_k, Len(merged))
            /\ \A i \in 1..(Len(ret) - 1) : ret[i].score >= ret[i + 1].score
            /\ \A i \in 1..Len(ret) : Count(ret[i], ret) <= Count(ret[i], merged)
            /\ \A j \in 1..Len(merged) :
                   Count(merged[j], merged) > Count(merged[j], ret) =>
                       \A i \in 1..Len(ret) : merged[j].score <= ret[i].score

\* C2's case: more entries merged than top_k, and the sort changed their order.
C2_Witness ==
    /\ IsRetrieval
    /\ call.top_k >= 1
    /\ Len(call.out.all_results) > call.top_k
    /\ call.out.ret /= Take(call.out.all_results, call.top_k)

\* C3: no stored record (same collection, same point) appears more than once
\* in the list get_relevant_documents returns.
C3_NoRecordTwice ==
    IsRetrieval =>
        \A i, j \in 1..Len(call.out.ret) :
            (i /= j) =>
                ~(/\ call.out.ret[i].coll = call.out.ret[j].coll
                  /\ call.out.ret[i].pt = call.out.ret[j].pt)

\* C4: the cases collection is searched with limit top_k and its results are
\* never filtered by law type: the call with any other filter and the same
\* inputs merges exactly the same case results, and when the cases search
\* succeeds they are the first top_k hits of the cases collection, all of them.
C4_CasesIgnoreFilter ==
    IsRetrieval =>
        LET entered == EntriesOf("ksa_cases", call.out.all_results)
        IN  /\ \A f \in Filters :
                   EntriesOf("ksa_cases",
                             GetRelevantDocumentsOutcome(call.query, call.top_k, f,
                                                         call.fail).all_results)
                       = entered
            /\ \A i \in 1..Len(call.out.searches) :
                   call.out.searches[i].coll = "ksa_cases" =>
                       call.out.searches[i].limit = call.top_k
            /\ (ClientsOk /\ call.fail /= "embed") =>
                   \E i \in 1..Len(call.out.searches) : call.out.searches[i].coll = "ksa_cases"
            /\ (ClientsOk /\ call.fail \in {"none", "articles"}) =>
                   entered = CaseResults(Take(ksa_cases, call.top_k))

\* C4's case: under a restrictive filter a case whose law_type the filter does
\* not allow entered the merge.
C4_Witness ==
    /\ IsRetrieval
    /\ call.law_filter = "sharia"
    /\ \E i \in 1..Len(call.out.all_results) :
           /\ call.out.all_results[i].coll = "ksa_cases"
           /\ ~PassesFilter([payload |-> [law_type |-> call.out.all_results[i].law_type]],
                            call.law_filter)

\* C5: a failure of one collection search is isolated: the other collection is
\* still searched and its results returned, the failed one contributes
\* nothing, and no failure (a search, the embedder, a missing client) reaches
\* the caller as an exception.
C5_FailureIsolated ==
    /\ IsAsk => ~call.raised
    /\ IsRetrieval =>
        LET out == call.out
            ok  == GetRelevantDocumentsOutcome(call.query, call.top_k, call.law_filter, "none")
        IN  /\ ~out.raised
            /\ (ClientsOk /\ call.fail = "articles") =>
                   /\ \E i \in 1..Len(out.searches) : out.searches[i].coll = "ksa_cases"
                   /\ out.all_results = CaseResults(Take(ksa_cases, call.top_k))
                   /\ out.ret = TopResults(out.all_results, call.top_k)
            /\ (ClientsOk /\ call.fail = "cases") =>
                   /\ \E i \in 1..Len(out.searches) : out.searches[i].coll = "ksa_legal_docs"
                   /\ out.all_results = EntriesOf("ksa_legal_docs", ok.all_results)
                   /\ out.ret = TopResults(out.all_results, call.top_k)
            /\ (ClientsOk /\ call.fail = "both") => out.ret = <<>>
            /\ (~ClientsOk \/ call.fail = "embed") => out.ret = <<>>

\* C5's case: the articles search raised and case results were returned.
C5_Witness ==
    /\ IsRetrieval
    /\ ClientsOk
    /\ call.fail = "articles"
    /\ call.out.ret /= <<>>
    /\ \A i \in 1..Len(call.out.ret) : call.out.ret[i].coll = "ksa_cases"

\* The query holds the word "contract" in some letter case.
HasContractWord(query) ==
    \E i \in 1..Len(query) : query[i] \in {"contract", "Contract", "CONTRACT"}

\* C6 as stated: when the generation client is not initialised, or the
\* generation call fails, and the query contains "contract" in any letter
\* case, ask_chatbot returns the canned contract-law text.
C6_ContractFallbackWhenAbsent ==
    (IsAsk /\ HasContractWord(call.query)
        /\ (openai_client = "none" \/ call.gen.kind = "raise")) =>
        /\ call.answer = ContractFallback
        /\ call.answer /= <<>>
        /\ Contains("Offer and Acceptance", call.answer)

\* C6 amended: when the generation call fails and the query contains
\* "contract" in any letter case, ask_chatbot returns the canned contract-law
\* text verbatim (non-empty, containing "Offer and Acceptance"); when the
\* client is not initialised it returns the fixed service-unavailable message
\* whatever the query.
C6_ContractFallbackOnFailure ==
    IsAsk =>
        /\ (openai_client = "ok" /\ call.gen.kind = "raise" /\ HasContractWord(call.query)) =>
               /\ call.answer = ContractFallback
               /\ call.answer /= <<>>
               /\ Contains("Offer and Acceptance", call.answer)
        /\ (openai_client = "none") => call.answer = UnavailableMessage

\* C6's case: the call failed on a query spelling the word in capitals.
C6_Witness ==
    /\ IsAsk
    /\ openai_client = "ok"
    /\ call.gen.kind = "raise"
    /\ Contains("CONTRACT", call.query)
    /\ call.answer = ContractFallback

\* C7: the text ask_chatbot returns never contains the raw backend error (the
\* exception's message); on backend failure it is one of the fixed messages.
C7_NoRawBackendError ==
    (IsAsk /\ openai_client = "ok" /\ call.gen.kind = "raise") =>
        \A i \in 1..Len(call.gen.msg) : ~Contains(call.gen.msg[i], call.answer)

(***************************************************************************)
(* Properties of split_text_into_chunks.                                   *)
(***************************************************************************)
\* The 0-based positions of the text a window's slice text[start:end] takes.
Positions(w) == {k \in 0..(Len(text) - 1) : PyBound(text, w.start) <= k /\ k < PyBound(text, w.end)}

\* C8: every iteration of the loop of split_text_into_chunks strictly
\* increases the window start, for every text and every configuration
\* (overlap >= chunk_size included, which must be rejected or clamped).
C8_ForwardProgress ==
    [][(cpc = "loop" /\ cpc' \in {"loop", "done"}) => start' > start]_vars

\* C9: for a text longer than chunk_size and overlap < chunk_size, every chunk
\* after the first, the final tail included, shares at least `overlap`
\* characters of the text with the chunk before it.
C9_ChunksShareOverlap ==
    (Len(text) > chunk_size /\ overlap < chunk_size) =>
        \A k \in 2..Len(chunks) :
            Cardinality(Positions(chunks[k - 1]) \cap Positions(chunks[k])) >= overlap

\* C10 as stated: a 2500-character text chunked with chunk_size 1000 and
\* overlap 200 gives exactly 3 chunks.
C10_ThreeChunks ==
    (cpc = "done") => Len(chunks) = 3

BlankWindows == {k \in 1..Len(windows) : ~StripNonEmpty(text, windows[k].start, windows[k].end)}

\* C10 amended: a 2500-character text chunked with chunk_size 1000 and
\* overlap 200 always takes exactly 4 windows: the first starts at 0, each next
\* one starts 200 characters before the end of the one before, the last
\* reaches the end of the text; one chunk is returned per window that is not
\* all whitespace, so 4 chunks unless a window is blank.  The call never raises.
C10_FourWindows ==
    /\ cpc /= "raised"
    /\ (cpc = "loop") => Len(windows) < 4
    /\ (cpc = "done") =>
        /\ Len(windows) = 4
        /\ windows[1].start = 0
        /\ \A k \in 1..3 : windows[k + 1].start = windows[k].end - DefaultOverlap
        /\ \A k \in 1..3 : windows[k + 1].start > windows[k].start
        /\ windows[4].end >= Len(text)
        /\ Len(chunks) = 4 - Cardinality(BlankWindows)

\* C10's case: a terminator moved the end of the first window back, and the
\* call returned four chunks.
C10_Witness ==
    /\ cpc = "done"
    /\ Len(text) = E2ELen
    /\ Len(chunks) = 4
    /\ windows[1].end < DefaultChunkSize

(***************************************************************************)
(* DataUploader.upload_documents (src/upload_data.py).  A document is      *)
(* [id, blank]: blank says that its text is empty after strip().  Which     *)
(* calls of the embedder and of the store raise is drawn with the           *)
(* documents: faults.embed holds the numbers of the documents whose         *)
(* encode() raises, faults.upsert the numbers of the upsert calls that      *)
(* raise.                                                                  *)
(***************************************************************************)
\* batch_size, line 72
BatchSize == 100

\* The upsert calls that may raise are among the first MaxFaultCalls.
MaxFaultCalls == 3

UploadSizes ==
    {0, 1, BatchSize - 1, BatchSize, BatchSize + 1, 2 * BatchSize, 2 * BatchSize + 1}

BlankCandidates == {{}, {1}, {BatchSize}, {1, BatchSize + 1}}

EmbedFaultCandidates == {{}, {2}}

UploadDocuments(n, blanks) == [i \in 1..n |-> [id |-> i, blank |-> i \in blanks]]

\* qdrant_client.upsert(collection_name, points): the call is logged; it
\* raises when its number is in faults.upsert.
UpsertOk == (Len(upserts) + 1) \notin faults.upsert

\* Lines 101-106: what is left in `points` after the batch test of line 101:
\* a successful upsert empties it; a raising one leaves line 106 unreached.
PointsAfterBatch(pts, ok) == IF ok THEN <<>> ELSE pts

\* Lines 61-73: the call, its two early returns.
UploadEnter ==
    /\ upc = "enter"
    /\ upc' = IF qdrant_client = "none" \/ documents = <<>> THEN "false" ELSE "loop"
    /\ points' = <<>>
    /\ UNCHANGED <<documents, doc_i, upserts, faults>>
    /\ UNCHANGED <<retrievalVars, chunkVars, callVars>>

\* Lines 75-110: one iteration of the loop over the documents.
UploadDoc ==
    /\ upc = "loop"
    /\ doc_i < Len(documents)
    /\ LET i    == doc_i + 1
           doc  == documents[i]
           pts  == Append(points, doc.id)
       IN  /\ doc_i' = i
           /\ upc' = IF i = Len(documents) THEN "final" ELSE "loop"
           /\ IF doc.blank \/ i \in faults.embed
              THEN UNCHANGED <<points, upserts>>     \* lines 79-80, or line 82 raised
              ELSE IF Len(pts) >= BatchSize
                   THEN /\ upserts' = Append(upserts, [points |-> pts, ok |-> UpsertOk])
                        /\ points' = PointsAfterBatch(pts, UpsertOk)
                   ELSE /\ points' = pts
                        /\ UNCHANGED upserts
    /\ UNCHANGED <<documents, faults>>
    /\ UNCHANGED <<retrievalVars, chunkVars, callVars>>

\* Lines 112-123: the remaining points, and the return.
UploadFinal ==
    /\ upc = "final"
    /\ upc' = "true"
    /\ IF points /= <<>>
       THEN upserts' = Append(upserts, [points |-> points, ok |-> UpsertOk])
       ELSE UNCHANGED upserts
    /\ UNCHANGED <<documents, doc_i, points, faults>>
    /\ UNCHANGED <<retrievalVars, chunkVars, callVars>>

InitUpload ==
    /\ qdrant_client \in {"ok", "none"}
    /\ embedder = "ok"
    /\ openai_client = "none"
    /\ ksa_legal_docs = <<>>
    /\ ksa_cases = <<>>
    /\ call = [op |-> "none"]
    /\ ChunkIdle
    /\ CallIdle
    /\ documents \in {UploadDocuments(n, b) : n \in UploadSizes, b \in BlankCandidates}
    /\ doc_i = 0
    /\ points = <<>>
    /\ upserts = <<>>
    /\ faults \in [embed : EmbedFaultCandidates, upsert : SUBSET (1..MaxFaultCalls)]
    /\ upc = "enter"

NextUpload ==
    \/ UploadEnter
    \/ UploadDoc
    \/ UploadFinal

SpecUpload == InitUpload /\ [][NextUpload]_vars

(***************************************************************************)
(* Properties of upload_documents.                                         *)
(***************************************************************************)
IdsOf(pts) == {pts[k] : k \in 1..Len(pts)}

\* C11: when the upsert of a full batch fails the batch is skipped: its
\* records are in no later upsert, every upsert carries at most 100 records,
\* and the run completes.
C11_FailedBatchSkipped ==
    /\ \A k \in 1..Len(upserts) : Len(upserts[k].points) <= BatchSize
    /\ \A j, k \in 1..Len(upserts) :
           (j < k /\ ~upserts[j].ok /\ Len(upserts[j].points) >= BatchSize) =>
               IdsOf(upserts[j].points) \cap IdsOf(upserts[k].points) = {}

(***************************************************************************)
(* PDFProcessor.categorize_law (src/pdf_processor.py).  A file name is a   *)
(* sequence of atoms: keywords in either spelling, and other stretches.    *)
(***************************************************************************)
Keywords ==
    {"civil", "criminal", "labor", "company", "traffic", "sharia",
     "board", "grievance", "basic", "governance"}

\* The keyword as a file name spells it: in lower case, or capitalised.
Spelling(k, capital) ==
    IF ~capital THEN k
    ELSE CASE k = "civil"      -> "Civil"
           [] k = "criminal"   -> "Criminal"
           [] k = "labor"      -> "Labor"
           [] k = "company"    -> "Company"
           [] k = "traffic"    -> "Traffic"
           [] k = "sharia"     -> "Sharia"
           [] k = "board"      -> "Board"
           [] k = "grievance"  -> "Grievance"
           [] k = "basic"      -> "Basic"
           [] k = "governance" -> "Governance"

RECURSIVE SeqOfSet(_)
SeqOfSet(S) ==
    IF S = {} THEN <<>>
    ELSE LET x == CHOOSE y \in S : TRUE IN <<x>> \o SeqOfSet(S \ {x})

\* A file name that holds exactly the keywords of S: "KSA_" ... ".pdf"
Filename(S, capital) ==
    <<"KSA_">> \o [i \in 1..Cardinality(S) |-> Spelling(SeqOfSet(S)[i], capital)] \o <<".pdf">>

Filenames == {Filename(S, capital) : S \in SUBSET Keywords, capital \in BOOLEAN}

\* CategorizeLower with the sharia rule tried before the labor rule.
CategorizeLowerShariaFirst(filename_lower) ==
    IF Contains("civil", filename_lower) THEN "civil_law"
    ELSE IF Contains("criminal", filename_lower) THEN "criminal_law"
    ELSE IF Contains("sharia", filename_lower) THEN "sharia_law"
    ELSE IF Contains("labor", filename_lower) THEN "labor_law"
    ELSE IF Contains("company", filename_lower) THEN "company_law"
    ELSE IF Contains("traffic", filename_lower) THEN "traffic_law"
    ELSE IF Contains("board", filename_lower) /\ Contains("grievance", filename_lower)
         THEN "administrative_law"
    ELSE IF Contains("basic", filename_lower) /\ Contains("governance", filename_lower)
         THEN "constitutional_law"
    ELSE "general_law"

\* Lines 125-142: the if/elif chain on filename_lower
CategorizeLower(filename_lower) ==
    IF Contains("civil", filename_lower) THEN "civil_law"
    ELSE IF Contains("criminal", filename_lower) THEN "criminal_law"
    ELSE IF Contains("labor", filename_lower) THEN "labor_law"
    ELSE IF Contains("company", filename_lower) THEN "company_law"
    ELSE IF Contains("traffic", filename_lower) THEN "traffic_law"
    ELSE IF Contains("sharia", filename_lower) THEN "sharia_law"
    ELSE IF Contains("board", filename_lower) /\ Contains("grievance", filename_lower)
         THEN "administrative_law"
    ELSE IF Contains("basic", filename_lower) /\ Contains("governance", filename_lower)
         THEN "constitutional_law"
    ELSE "general_law"

\* Lines 121-142
CategorizeLaw(filename) == CategorizeLower(Lower(filename))

CategorizeLawCall ==
    /\ fpc = "call"
    /\ result' = CategorizeLaw(arg)
    /\ fpc' = "returned"
    /\ UNCHANGED arg
    /\ UNCHANGED <<retrievalVars, chunkVars, uploadVars>>

InitCategorize ==
    /\ RetrievalIdle
    /\ ChunkIdle
    /\ UploadIdle
    /\ arg \in Filenames
    /\ result = <<>>
    /\ fpc = "call"

NextCategorize == CategorizeLawCall

SpecCategorize == InitCategorize /\ [][NextCategorize]_vars

(***************************************************************************)
(* Properties of categorize_law.                                           *)
(***************************************************************************)
\* The ordered rule list of the categorizer: the keywords a rule needs, and
\* the law type it gives.
CategoryRules ==
    << [needs |-> {"civil"},               gives |-> "civil_law"],
       [needs |-> {"criminal"},            gives |-> "criminal_law"],
       [needs |-> {"labor"},               gives |-> "labor_law"],
       [needs |-> {"company"},             gives |-> "company_law"],
       [needs |-> {"traffic"},             gives |-> "traffic_law"],
       [needs |-> {"sharia"},              gives |-> "sharia_law"],
       [needs |-> {"board", "grievance"},  gives |-> "administrative_law"],
       [needs |-> {"basic", "governance"}, gives |-> "constitutional_law"] >>

\* The keywords a file name holds, in whatever letter case.
KeywordsIn(filename) ==
    {k \in Keywords :
        \E i \in 1..Len(filename) : filename[i] \in {Spelling(k, FALSE), Spelling(k, TRUE)}}

\* First match wins; general_law when no rule matches.
FirstMatch(present) ==
    LET matching == {n \in 1..Len(CategoryRules) : CategoryRules[n].needs \subseteq present}
    IN  IF matching = {} THEN "general_law"
        ELSE CategoryRules[CHOOSE n \in matching : \A m \in matching : n <= m].gives

\* C12: categorize_law gives what the ordered first-match-wins rule list
\* gives on the keywords the file name holds, case-insensitively; in
\* particular labor alone gives labor_law, basic and governance with no
\* earlier keyword give constitutional_law, no keyword gives general_law.
C12_FirstMatchWins ==
    (fpc = "returned") =>
        LET present == KeywordsIn(arg)
        IN  /\ result = FirstMatch(present)
            /\ (present = {"labor"}) => result = "labor_law"
            /\ (present = {"basic", "governance"}) => result = "constitutional_law"
            /\ (present = {}) => result = "general_law"

\* C12's case: a capitalised name holding two keywords of different rules is
\* given the law type of the earlier rule.
C12_Witness ==
    /\ fpc = "returned"
    /\ KeywordsIn(arg) = {"labor", "sharia"}
    /\ Contains("Labor", arg)
    /\ result = "labor_law"

(***************************************************************************)
(* PDFProcessor.extract_text_from_pdf (src/pdf_processor.py).  Extracted   *)
(* text is a sequence of atoms: a space, a newline, or a run of a given    *)
(* number of non-blank characters.  A PDF is what each of the two          *)
(* libraries makes of it: an exception, or the texts of its pages.         *)
(***************************************************************************)
MinTextLen == 100

MaxPages == 2

RunAtoms == {"run1", "run49", "run50", "run99", "run100"}

IsBlankAtom(a) == a \in {" ", "\n"}

AtomLen(a) ==
    CASE a = "run1"   -> 1
      [] a = "run49"  -> 49
      [] a = "run50"  -> 50
      [] a = "run99"  -> 99
      [] a = "run100" -> 100
      [] OTHER        -> 1

\* len(s)
RECURSIVE StrLen(_)
StrLen(s) == IF s = <<>> THEN 0 ELSE AtomLen(Head(s)) + StrLen(Tail(s))

\* str.strip()
RECURSIVE LStrip(_)
LStrip(s) == IF s # <<>> /\ IsBlankAtom(Head(s)) THEN LStrip(Tail(s)) ELSE s

RECURSIVE RStrip(_)
RStrip(s) ==
    IF s # <<>> /\ IsBlankAtom(s[Len(s)]) THEN RStrip(SubSeq(s, 1, Len(s) - 1)) ELSE s

Strip(s) == RStrip(LStrip(s))

\* page.extract_text() of one page
PageTexts == {<<>>, <<" ">>} \cup {<<a>> : a \in RunAtoms}

\* What one library makes of the file.
ExtractionOutcomes ==
    {[exc |-> TRUE, pages |-> <<>>]} \cup
    {[exc |-> FALSE, pages |-> ps] : ps \in UNION {[1..n -> PageTexts] : n \in 0..MaxPages}}

\* Lines 23-25 and 30-32: text = ""; text += page.extract_text() + "\n"
RECURSIVE JoinPages(_)
JoinPages(pages) ==
    IF pages = <<>> THEN <<>> ELSE Head(pages) \o <<"\n">> \o JoinPages(Tail(pages))

\* Line 28: whether the secondary extraction is tried
TooShort(t) == StrLen(Strip(t)) < MinTextLen

\* Lines 30-34: the secondary text replaces the primary one
ExtractReturn(primary, secondary) == Strip(secondary)

\* Lines 19-37: the returned text, and whether the secondary library was run
ExtractTextFromPdf(pdf) ==
    IF pdf.primary.exc
    THEN [exc |-> FALSE, text |-> <<>>, secondary_ran |-> FALSE]
    ELSE LET t == JoinPages(pdf.primary.pages)
         IN  IF ~TooShort(t)
             THEN [exc |-> FALSE, text |-> Strip(t), secondary_ran |-> FALSE]
             ELSE IF pdf.secondary.exc
             THEN [exc |-> FALSE, text |-> <<>>, secondary_ran |-> TRUE]
             ELSE [exc |-> FALSE,
                   text |-> ExtractReturn(t, JoinPages(pdf.secondary.pages)),
                   secondary_ran |-> TRUE]

ExtractCall ==
    /\ fpc = "call"
    /\ result' = ExtractTextFromPdf(arg)
    /\ fpc' = "returned"
    /\ UNCHANGED arg
    /\ UNCHANGED <<retrievalVars, chunkVars, uploadVars>>

InitExtract ==
    /\ RetrievalIdle
    /\ ChunkIdle
    /\ UploadIdle
    /\ arg \in [primary : ExtractionOutcomes, secondary : ExtractionOutcomes]
    /\ result = <<>>
    /\ fpc = "call"

NextExtract == ExtractCall

SpecExtract == InitExtract /\ [][NextExtract]_vars

(***************************************************************************)
(* Properties of extract_text_from_pdf.                                    *)
(***************************************************************************)
\* The text a library produced, blank when it raised.
Produced(outcome) == IF outcome.exc THEN <<>> ELSE Strip(JoinPages(outcome.pages))

\* C13: extract_text_from_pdf never raises; when the primary extraction
\* yields fewer than 100 characters the secondary one is run and the result
\* that is not blank is returned; the empty string is returned only when
\* neither method produced text.
C13_ReturnsNonTrivialResult ==
    (fpc = "returned") =>
        /\ ~result.exc
        /\ (~arg.primary.exc /\ StrLen(Produced(arg.primary)) < MinTextLen) =>
               /\ result.secondary_ran
               /\ result.text \in {Produced(arg.primary), Produced(arg.secondary)}
               /\ (Produced(arg.primary) # <<>> \/ Produced(arg.secondary) # <<>>) =>
                      result.text # <<>>
        /\ (result.text = <<>>) =>
               (Produced(arg.primary) = <<>> /\ Produced(arg.secondary) = <<>>)

(***************************************************************************)
(* PDFProcessor.clean_text (src/pdf_processor.py).  A text is a sequence   *)
(* of atoms: the words "Page" and "of", the digit "1", the letter "x", a   *)
(* space, a tab, and "#", a character outside the whitelist of line 47.    *)
(***************************************************************************)
MaxCleanLen == 5

CleanAtoms == {"Page", "of", "1", "x", " ", "\t", "#"}

\* \s
IsSpace(a) == a \in {" ", "\t"}

\* \d
IsDigit(a) == a = "1"

\* Line 47: the characters the whitelist keeps
IsWhitelisted(a) == a # "#"

\* s[i], and "" past the end
At(s, i) == IF i >= 1 /\ i <= Len(s) THEN s[i] ELSE ""

\* The length of the longest run of \s from position i
RECURSIVE SpaceRun(_, _)
SpaceRun(s, i) == IF IsSpace(At(s, i)) THEN 1 + SpaceRun(s, i + 1) ELSE 0

\* The length of the longest run of \d from position i
RECURSIVE DigitRun(_, _)
DigitRun(s, i) == IF IsDigit(At(s, i)) THEN 1 + DigitRun(s, i + 1) ELSE 0

Drop(s, n) == SubSeq(s, n + 1, Len(s))

\* Line 42: re.sub(r'\s+', ' ', text)
RECURSIVE CollapseWhitespace(_)
CollapseWhitespace(s) ==
    IF s = <<>> THEN <<>>
    ELSE IF IsSpace(Head(s)) THEN <<" ">> \o CollapseWhitespace(Drop(s, SpaceRun(s, 1)))
    ELSE <<Head(s)>> \o CollapseWhitespace(Tail(s))

\* The length of the match of r'Page \d+ of \d+' at the head of s, 0 for none
PageOfMatch(s) ==
    LET d1 == DigitRun(s, 3)
        d2 == DigitRun(s, 6 + d1)
    IN  IF /\ At(s, 1) = "Page"
           /\ At(s, 2) = " "
           /\ d1 >= 1
           /\ At(s, 3 + d1) = " "
           /\ At(s, 4 + d1) = "of"
           /\ At(s, 5 + d1) = " "
           /\ d2 >= 1
        THEN 5 + d1 + d2
        ELSE 0

\* Line 44: re.sub(r'Page \d+ of \d+', '', text)
RECURSIVE RemovePageOf(_)
RemovePageOf(s) ==
    IF s = <<>> THEN <<>>
    ELSE IF PageOfMatch(s) > 0 THEN RemovePageOf(Drop(s, PageOfMatch(s)))
    ELSE <<Head(s)>> \o RemovePageOf(Tail(s))

\* The length of the match of r'\d+\s*of\s*\d+' at the head of s, 0 for none
NOfMMatch(s) ==
    LET d1 == DigitRun(s, 1)
        w1 == SpaceRun(s, 1 + d1)
        w2 == SpaceRun(s, 2 + d1 + w1)
        d2 == DigitRun(s, 2 + d1 + w1 + w2)
    IN  IF d1 >= 1 /\ At(s, 1 + d1 + w1) = "of" /\ d2 >= 1
        THEN d1 + w1 + 1 + w2 + d2
        ELSE 0

\* Line 45: re.sub(r'\d+\s*of\s*\d+', '', text)
RECURSIVE RemoveNOfM(_)
RemoveNOfM(s) ==
    IF s = <<>> THEN <<>>
    ELSE IF NOfMMatch(s) > 0 THEN RemoveNOfM(Drop(s, NOfMMatch(s)))
    ELSE <<Head(s)>> \o RemoveNOfM(Tail(s))

\* Line 47: re.sub(r'[^\w\s...]', '', text)
RemoveSpecial(s) == SelectSeq(s, IsWhitelisted)

\* text.strip() of line 48
RECURSIVE StripLeft(_)
StripLeft(s) == IF s # <<>> /\ IsSpace(Head(s)) THEN StripLeft(Tail(s)) ELSE s

RECURSIVE StripRight(_)
StripRight(s) ==
    IF s # <<>> /\ IsSpace(s[Len(s)]) THEN StripRight(SubSeq(s, 1, Len(s) - 1)) ELSE s

\* Lines 39-48
CleanText(s) ==
    StripRight(StripLeft(RemoveSpecial(RemoveNOfM(RemovePageOf(CollapseWhitespace(s))))))

\* A page marker
PageMarker == <<"Page", " ", "1", " ", "of", " ", "1">>

\* Any short text, and a page marker between any two atoms.
CleanTexts ==
    UNION {[1..n -> CleanAtoms] : n \in 0..MaxCleanLen} \cup
    {p \o PageMarker \o q : p, q \in UNION {[1..n -> CleanAtoms] : n \in 0..1}}

\* clean_text(text)
CleanCall ==
    /\ fpc = "call"
    /\ result' = <<CleanText(arg)>>
    /\ fpc' = "cleaned"
    /\ UNCHANGED arg
    /\ UNCHANGED <<retrievalVars, chunkVars, uploadVars>>

\* clean_text of the text that clean_text returned
CleanAgain ==
    /\ fpc = "cleaned"
    /\ result' = Append(result, CleanText(result[1]))
    /\ fpc' = "recleaned"
    /\ UNCHANGED arg
    /\ UNCHANGED <<retrievalVars, chunkVars, uploadVars>>

InitClean ==
    /\ RetrievalIdle
    /\ ChunkIdle
    /\ UploadIdle
    /\ arg \in CleanTexts
    /\ result = <<>>
    /\ fpc = "call"

NextClean == CleanCall \/ CleanAgain

SpecClean == InitClean /\ [][NextClean]_vars

(***************************************************************************)
(* Properties of clean_text.                                               *)
(***************************************************************************)
\* C14: clean_text is idempotent: cleaning a cleaned text changes nothing.
C14_Idempotent == (fpc = "recleaned") => result[2] = result[1]

(***************************************************************************)
(* Coverage and chunk length of split_text_into_chunks.  A call that has   *)
(* been entered keeps running: each step of it that can be taken is taken. *)
(***************************************************************************)
SpecChunkFair == SpecChunk /\ WF_vars(SplitEnter) /\ WF_vars(SplitIter)

\* The ranges taken so far leave no gap from the start of the text to its end.
RangesCoverText ==
    /\ windows # <<>>
    /\ windows[1].start = 0
    /\ \A k \in 2..Len(windows) : windows[k].start <= windows[k - 1].end
    /\ windows[Len(windows)].end >= Len(text)

\* C15: for a text longer than chunk_size and 0 <= overlap < chunk_size, the
\* ranges [start, end) taken by split_text_into_chunks cover the whole text
\* with no gap: the call comes to its last range, the first range starts at 0,
\* each next one starts at or before the end of the one before, and the last
\* one reaches the end of the text.
C15_RangesCoverText ==
    (Len(text) > chunk_size /\ 0 <= overlap /\ overlap < chunk_size) =>
        <>(cpc = "done" /\ RangesCoverText)

\* C16: every chunk emitted by split_text_into_chunks has at most chunk_size
\* characters, whether its end was moved to a sentence terminator or cut at
\* the window boundary.
C16_ChunkAtMostChunkSize ==
    \A k \in 1..Len(chunks) :
        Len(Strip(PySlice(text, chunks[k].start, chunks[k].end))) <= chunk_size

====
